---- MODULE Spec2Model ----
(***************************************************************************)
(* The mutations of crm/schema.py (CreateCustomer, BulkCreateCustomers,    *)
(* CreateProduct, CreateOrder, UpdateLowStockProducts) over the three      *)
(* tables Customer, Product and Order.                                     *)
(*                                                                         *)
(* A table is the sequence of its rows in primary-key order; no mutation   *)
(* deletes a row, so the row with pk = i is the i-th element.  Prices are  *)
(* counted in the smallest unit of the stored decimal.  Python's None is   *)
(* the distinguished string None.                                          *)
(***************************************************************************)
EXTENDS Integers, Sequences, FiniteSets, TLC

VARIABLES customers, products, orders, last, calls

vars == <<customers, products, orders, last, calls>>

store == <<customers, products, orders>>

\* ---------------------------------------------------------------- bounds
MaxProducts == 2
MaxOrders == 1
MaxBatch == 3

\* ------------------------------------------------------------ constants
None == "None"
DefaultStock == 0
DefaultThreshold == 10
RestockAmount == 10

\* --------------------------------------------------------------- helpers
Range(s) == {s[i] : i \in 1..Len(s)}

RECURSIVE SeqsUpTo(_, _)
SeqsUpTo(S, n) ==
  IF n = 0 THEN {<<>>}
  ELSE LET shorter == SeqsUpTo(S, n - 1)
       IN  shorter \cup {Append(s, x) : s \in {t \in shorter : Len(t) = n - 1}, x \in S}

\* ---------------------------------------------------------------- inputs
CustomerInput(name, email, phone) == [name |-> name, email |-> email, phone |-> phone]

CustomerInputs ==
  { CustomerInput("Ann", "a@x", None),
    CustomerInput("Bob", "b@x", "555") }

BatchItems ==
  { CustomerInput("Amy", "a@x", "556"),
    CustomerInput("Bob", "b@x", None),
    CustomerInput("Cy", "c@x", "") }

FewBatches ==
  { <<>>,
    <<CustomerInput("Amy", "a@x", "556")>>,
    <<CustomerInput("Bob", "b@x", None), CustomerInput("Ann", "a@x", "556")>> }

ProductInput(name, price, stock) == [name |-> name, price |-> price, stock |-> stock]

\* an optional integer argument is <<>> when omitted and <<n>> when given
ProductInputs ==
  { ProductInput("Widget", 1, <<>>),
    ProductInput("Gadget", 2, <<7>>),
    ProductInput("Free", 0, <<3>>),
    ProductInput("Refund", -5, <<-1>>),
    ProductInput("Owed", 1, <<-1>>) }

Thresholds == {<<>>, <<0>>, <<5>>, <<11>>}

ConcurrentThresholds == {<<>>, <<5>>}

\* ------------------------------------------------------- CreateCustomer
\* only the newest row compared
EmailExistsLastRow(cs, email) == Len(cs) > 0 /\ cs[Len(cs)].email = email

EmailExists(cs, email) == \E i \in 1..Len(cs) : cs[i].email = email

\* the phone left out of the constructor call
SaveCustomerWithoutPhone(cs, name, email, phone) ==
  Append(cs, [id |-> Len(cs) + 1, name |-> name, email |-> email, phone |-> None])

\* Customer(...).save(): a new row, pk assigned by the table
SaveCustomer(cs, name, email, phone) ==
  Append(cs, [id |-> Len(cs) + 1, name |-> name, email |-> email, phone |-> phone])

CreateCustomerMutate(cs, name, email, phone) ==
  LET args == CustomerInput(name, email, phone)
  IN  IF EmailExists(cs, email)
      THEN [customers |-> cs,
            result |-> [op |-> "createCustomer", args |-> args, ok |-> FALSE,
                        error |-> "Email already exists"]]
      ELSE LET cs2 == SaveCustomer(cs, name, email, phone)
           IN  [customers |-> cs2,
                result |-> [op |-> "createCustomer", args |-> args, ok |-> TRUE,
                            error |-> "",
                            customer |-> cs2[Len(cs2)],
                            message |-> "Customer created successfully."]]

\* --------------------------------------------------- BulkCreateCustomers
PhoneOrEmpty(phone) == IF phone = None \/ phone = "" THEN "" ELSE phone

EmailExistsMessage(email) == "Email " \o email \o " already exists"

\* one iteration of the for loop: acc = [customers, created, errors]
BulkItem(acc, item) ==
  IF EmailExists(acc.customers, item.email)
  THEN [acc EXCEPT !.errors = Append(@, EmailExistsMessage(item.email))]
  ELSE LET cs2 == SaveCustomer(acc.customers, item.name, item.email,
                               PhoneOrEmpty(item.phone))
       IN  [customers |-> cs2,
            created |-> Append(acc.created, cs2[Len(cs2)]),
            errors |-> acc.errors]

RECURSIVE BulkLoop(_, _, _)
BulkLoop(acc, input, i) ==
  IF i > Len(input) THEN acc
  ELSE BulkLoop(BulkItem(acc, input[i]), input, i + 1)

\* the batch rolled back when an item was rejected
BulkCreateCustomersRollback(cs, input) ==
  LET acc == BulkLoop([customers |-> cs, created |-> <<>>, errors |-> <<>>], input, 1)
  IN  [customers |-> IF acc.errors = <<>> THEN acc.customers ELSE cs,
       result |-> [op |-> "bulkCreateCustomers", args |-> input, ok |-> TRUE,
                   error |-> "",
                   customers |-> acc.created, errors |-> acc.errors]]

BulkCreateCustomersMutate(cs, input) ==
  LET acc == BulkLoop([customers |-> cs, created |-> <<>>, errors |-> <<>>], input, 1)
  IN  [customers |-> acc.customers,
       result |-> [op |-> "bulkCreateCustomers", args |-> input, ok |-> TRUE,
                   error |-> "",
                   customers |-> acc.created, errors |-> acc.errors]]

\* -------------------------------------------------------- CreateProduct
\* graphene.Int(default_value=0)
StockArgument(stock) == IF stock = <<>> THEN DefaultStock ELSE stock[1]

\* a price of zero let through
PriceRejectedBelowZero(price) == price < 0

PriceRejected(price) == price <= 0

StockRejected(stock) == stock < 0

\* Product(...).save(): a new row, pk assigned by the table
SaveNewProduct(ps, name, price, stock) ==
  Append(ps, [id |-> Len(ps) + 1, name |-> name, price |-> price, stock |-> stock])

CreateProductMutate(ps, name, price, stockArg) ==
  LET stock == StockArgument(stockArg)
      args == ProductInput(name, price, stockArg)
  IN  IF PriceRejected(price)
      THEN [products |-> ps,
            result |-> [op |-> "createProduct", args |-> args, ok |-> FALSE,
                        error |-> "Price must be positive"]]
      ELSE IF StockRejected(stock)
      THEN [products |-> ps,
            result |-> [op |-> "createProduct", args |-> args, ok |-> FALSE,
                        error |-> "Stock cannot be negative"]]
      ELSE LET ps2 == SaveNewProduct(ps, name, price, stock)
           IN  [products |-> ps2,
                result |-> [op |-> "createProduct", args |-> args, ok |-> TRUE,
                            error |-> "", product |-> ps2[Len(ps2)]]]

\* ---------------------------------------------------------- CreateOrder
\* DoesNotExist never raised
CustomerFoundAlways(cs, customer_id) == TRUE

\* Customer.objects.get(pk=customer_id) finds a row
CustomerFound(cs, customer_id) == \E i \in 1..Len(cs) : cs[i].id = customer_id

\* Product.objects.filter(pk__in=product_ids): each matching row once
FilterPkIn(ps, product_ids) == SelectSeq(ps, LAMBDA p : p.id \in Range(product_ids))

\* the emptiness check left out
NoProductsNeverRaised(product_ids) == FALSE

\* not product_ids
NoProducts(product_ids) == product_ids = <<>>

CountMismatch(resolved, product_ids) == Len(resolved) # Len(product_ids)

\* only the first resolved product priced
SumPricesFirstOnly(resolved) == IF resolved = <<>> THEN 0 ELSE Head(resolved).price

RECURSIVE SumPrices(_)
SumPrices(resolved) ==
  IF resolved = <<>> THEN 0 ELSE Head(resolved).price + SumPrices(Tail(resolved))

\* Order.objects.create(...); order.products.set(products); order.save()
SaveNewOrder(os, customer_id, resolved, total_amount) ==
  Append(os, [id |-> Len(os) + 1, customer |-> customer_id,
              products |-> {p.id : p \in Range(resolved)},
              total_amount |-> total_amount])

\* queries: the table accesses made, in the order the handler makes them
CreateOrderMutate(cs, ps, os, customer_id, product_ids) ==
  LET args == [customer_id |-> customer_id, product_ids |-> product_ids]
      failed(msg, q) == [orders |-> os,
                         result |-> [op |-> "createOrder", args |-> args, ok |-> FALSE,
                                     error |-> msg, queries |-> q]]
  IN  IF ~CustomerFound(cs, customer_id)
      THEN failed("Invalid customer ID", <<"Customer.get">>)
      ELSE IF NoProducts(product_ids)
      THEN failed("At least one product must be selected", <<"Customer.get">>)
      ELSE LET resolved == FilterPkIn(ps, product_ids)
           IN  IF CountMismatch(resolved, product_ids)
               THEN failed("One or more product IDs are invalid",
                           <<"Customer.get", "Product.count">>)
               ELSE LET os2 == SaveNewOrder(os, customer_id, resolved, SumPrices(resolved))
                    IN  [orders |-> os2,
                         result |-> [op |-> "createOrder", args |-> args, ok |-> TRUE,
                                     error |-> "", order |-> os2[Len(os2)],
                                     queries |-> <<"Customer.get", "Product.count",
                                                   "Product.filter", "Order.create",
                                                   "Order.products.set", "Order.save">>]]

\* ----------------------------------------------- UpdateLowStockProducts
\* graphene.Int(default_value=10)
ThresholdArgument(threshold) == IF threshold = <<>> THEN DefaultThreshold ELSE threshold[1]

\* Product.objects.filter(stock__lt=threshold), evaluated when the loop starts
LowStock(ps, threshold) == SelectSeq(ps, LAMBDA p : p.stock < threshold)

\* product.stock += 10 on the fetched object
Restocked(product) == [product EXCEPT !.stock = @ + RestockAmount]

\* product.save(): every column of the row is written from the object
SaveProduct(ps, product) == [ps EXCEPT ![product.id] = product]

\* a call that has evaluated its queryset; fetched keeps the rows as read
StartCall(ps, thresholdArg) ==
  LET threshold == ThresholdArgument(thresholdArg)
      low == LowStock(ps, threshold)
  IN  [pc |-> "loop", args |-> thresholdArg, threshold |-> threshold,
       fetched |-> low, cache |-> low, i |-> 1, updated_count |-> 0]

LoopDone(call) == call.i > Len(call.cache)

\* one iteration of the for loop, on the call's own objects
LoopBody(call) ==
  [call EXCEPT !.cache[call.i] = Restocked(@), !.i = @ + 1, !.updated_count = @ + 1]

\* the row written by the iteration LoopBody(call) performs
LoopWrite(ps, call) == SaveProduct(ps, Restocked(call.cache[call.i]))

RestockMessage(updated_count, threshold) ==
  "Updated " \o ToString(updated_count) \o " low-stock products (threshold: "
    \o ToString(threshold) \o ")."

\* the queryset evaluated again when the result is read
UpdatedProductsRequeried(call, ps) == LowStock(ps, call.threshold)

\* updated_products=low_stock_products: the queryset, whose result cache holds
\* the objects the loop changed
UpdatedProducts(call, ps) == call.cache

CallResult(call, ps) ==
  [op |-> "updateLowStockProducts", args |-> call.args, ok |-> TRUE, error |-> "",
   updated_products |-> UpdatedProducts(call, ps),
   message |-> RestockMessage(call.updated_count, call.threshold)]

\* the whole call, run without interruption
RECURSIVE RunLoop(_, _)
RunLoop(ps, call) ==
  IF LoopDone(call) THEN [products |-> ps, call |-> call]
  ELSE RunLoop(LoopWrite(ps, call), LoopBody(call))

UpdateLowStockProductsMutate(ps, thresholdArg) ==
  LET end == RunLoop(ps, StartCall(ps, thresholdArg))
  IN  [products |-> end.products, result |-> CallResult(end.call, end.products)]

\* ---------------------------------------------------------------- inputs
CustomerIds == 1..2

\* 9 is the pk of no product
ProductIdLists == {<<>>, <<1>>, <<9>>, <<1, 1>>, <<1, 2>>, <<2, 1>>, <<2, 9>>}

\* -------------------------------------------------------------- actions
\* the requests that may run UpdateLowStockProducts side by side
Requests == {"r1", "r2"}

NoCall == [pc |-> "idle"]

Init ==
  /\ customers = <<>>
  /\ products = <<>>
  /\ orders = <<>>
  /\ last = [op |-> "none", ok |-> TRUE, error |-> ""]
  /\ calls = [r \in Requests |-> NoCall]

\* Each action is one mutation run to completion on the given arguments.
CreateCustomer(inputs) ==
  \E in \in inputs :
    LET r == CreateCustomerMutate(customers, in.name, in.email, in.phone)
    IN  /\ customers' = r.customers
        /\ last' = r.result
        /\ UNCHANGED <<products, orders, calls>>

BulkCreateCustomers(batches) ==
  \E input \in batches :
    LET r == BulkCreateCustomersMutate(customers, input)
    IN  /\ customers' = r.customers
        /\ last' = r.result
        /\ UNCHANGED <<products, orders, calls>>

CreateProduct(inputs) ==
  /\ Len(products) < MaxProducts
  /\ \E in \in inputs :
       LET r == CreateProductMutate(products, in.name, in.price, in.stock)
       IN  /\ products' = r.products
           /\ last' = r.result
           /\ UNCHANGED <<customers, orders, calls>>

CreateOrder ==
  /\ Len(orders) < MaxOrders
  /\ \E customer_id \in CustomerIds, product_ids \in ProductIdLists :
       LET r == CreateOrderMutate(customers, products, orders, customer_id, product_ids)
       IN  /\ orders' = r.orders
           /\ last' = r.result
           /\ UNCHANGED <<customers, products, calls>>

UpdateLowStockProducts(thresholds) ==
  \E threshold \in thresholds :
    LET r == UpdateLowStockProductsMutate(products, threshold)
    IN  /\ products' = r.products
        /\ last' = r.result
        /\ UNCHANGED <<customers, orders, calls>>

\* The five mutations, one request at a time.
Next ==
  \/ CreateCustomer(CustomerInputs)
  \/ BulkCreateCustomers(FewBatches)
  \/ CreateProduct(ProductInputs)
  \/ CreateOrder
  \/ UpdateLowStockProducts(Thresholds)

Spec == Init /\ [][Next]_vars

\* The two customer mutations alone, on every batch of at most MaxBatch items.
NextCustomers ==
  \/ CreateCustomer(CustomerInputs)
  \/ BulkCreateCustomers(SeqsUpTo(BatchItems, MaxBatch))

SpecCustomers == Init /\ [][NextCustomers]_vars

\* UpdateLowStockProducts of two requests, interleaved at its table accesses:
\* the evaluation of the queryset, each product.save(), the return.
BeginCall(r) ==
  /\ calls[r].pc = "idle"
  /\ \E threshold \in ConcurrentThresholds :
       calls' = [calls EXCEPT ![r] = StartCall(products, threshold)]
  /\ UNCHANGED <<customers, products, orders, last>>

SaveNext(r) ==
  /\ calls[r].pc = "loop"
  /\ ~LoopDone(calls[r])
  /\ products' = LoopWrite(products, calls[r])
  /\ calls' = [calls EXCEPT ![r] = LoopBody(@)]
  /\ UNCHANGED <<customers, orders, last>>

ReturnCall(r) ==
  /\ calls[r].pc = "loop"
  /\ LoopDone(calls[r])
  /\ calls' = [calls EXCEPT ![r].pc = "done"]
  /\ last' = CallResult(calls[r], products)
  /\ UNCHANGED <<customers, products, orders>>

NextConcurrent ==
  \/ CreateProduct(ProductInputs)
  \/ \E r \in Requests : BeginCall(r)
  \/ \E r \in Requests : SaveNext(r)
  \/ \E r \in Requests : ReturnCall(r)

SpecConcurrent == Init /\ [][NextConcurrent]_vars

\* ================================================================ claims
Emails(cs) == {cs[i].email : i \in 1..Len(cs)}

Indices(sq) == [i \in 1..Len(sq) |-> i]

\* C1: createCustomer on an email some stored customer already has fails with
\* "Email already exists" and changes no table; on an email no stored customer
\* has it succeeds and adds exactly one customer, carrying the given name,
\* email and phone.
C1_CreateCustomer ==
  [][ last'.op = "createCustomer" =>
        LET a == last'.args
        IN  IF a.email \in Emails(customers)
            THEN /\ ~last'.ok
                 /\ last'.error = "Email already exists"
                 /\ store' = store
            ELSE /\ last'.ok
                 /\ Len(customers') = Len(customers) + 1
                 /\ SubSeq(customers', 1, Len(customers)) = customers
                 /\ customers'[Len(customers')].name = a.name
                 /\ customers'[Len(customers')].email = a.email
                 /\ customers'[Len(customers')].phone = a.phone
                 /\ last'.customer = customers'[Len(customers')]
                 /\ products' = products
                 /\ orders' = orders ]_vars

\* a createCustomer was refused for the email of a stored customer of another name
C1_Witness ==
  /\ last.op = "createCustomer"
  /\ ~last.ok
  /\ \E i \in 1..Len(customers) :
       customers[i].email = last.args.email /\ customers[i].name # last.args.name

\* C2: bulkCreateCustomers rejects an item exactly when its email is in the
\* table when the item is processed, that is when a customer stored before the
\* call or an earlier item of the batch has it.  The returned customers are the
\* accepted items in input order, the returned errors name the emails of the
\* rejected items in input order, and every accepted item is a row of the
\* table after the call, whatever was rejected after it.
C2_BulkCreateCustomers ==
  [][ last'.op = "bulkCreateCustomers" =>
        LET input == last'.args
            Rejected(i) == \/ input[i].email \in Emails(customers)
                           \/ \E j \in 1..(i - 1) : input[j].email = input[i].email
            accepted == SelectSeq(Indices(input), LAMBDA i : ~Rejected(i))
            rejected == SelectSeq(Indices(input), LAMBDA i : Rejected(i))
        IN  /\ last'.ok
            /\ Len(last'.customers) = Len(accepted)
            /\ \A k \in 1..Len(accepted) :
                 /\ last'.customers[k].name = input[accepted[k]].name
                 /\ last'.customers[k].email = input[accepted[k]].email
            /\ Len(last'.errors) = Len(rejected)
            /\ \A k \in 1..Len(rejected) :
                 last'.errors[k] = "Email " \o input[rejected[k]].email \o " already exists"
            /\ customers' = customers \o last'.customers
            /\ products' = products
            /\ orders' = orders ]_vars

\* a batch of three whose second item alone was rejected, for the email of a
\* customer stored before the call
C2_Witness ==
  /\ last.op = "bulkCreateCustomers"
  /\ Len(last.args) = 3
  /\ Len(last.errors) = 1
  /\ last.errors[1] = "Email " \o last.args[2].email \o " already exists"
  /\ Len(last.customers) = 2
  /\ last.customers[1].email = last.args[1].email
  /\ last.customers[2].email = last.args[3].email
  /\ Len(customers) = 3
  /\ customers[1].email = last.args[2].email
  /\ customers[3] = last.customers[2]

\* C3 as stated: createOrder with an empty product_ids list fails with "At
\* least one product must be selected" for every customer_id.
C3_EmptyListAnyCustomer ==
  (last.op = "createOrder" /\ last.args.product_ids = <<>>) =>
    (~last.ok /\ last.error = "At least one product must be selected")

CustomerPks(cs) == {cs[i].id : i \in 1..Len(cs)}

ProductPks(ps) == {ps[i].id : i \in 1..Len(ps)}

\* C3, amended: createOrder with an empty product_ids list always fails and
\* writes nothing: with "At least one product must be selected" when
\* customer_id is the pk of a stored customer, with "Invalid customer ID" when
\* it is the pk of none.
C3_EmptyList ==
  [][ (last'.op = "createOrder" /\ last'.args.product_ids = <<>>) =>
        /\ ~last'.ok
        /\ orders' = orders
        /\ last'.error = IF last'.args.customer_id \in CustomerPks(customers)
                         THEN "At least one product must be selected"
                         ELSE "Invalid customer ID" ]_vars

\* an empty list was refused for a stored customer, with products in the table
C3_Witness ==
  /\ last.op = "createOrder"
  /\ last.args.product_ids = <<>>
  /\ last.args.customer_id \in CustomerPks(customers)
  /\ last.error = "At least one product must be selected"
  /\ Len(products) > 0

\* C4: createOrder with a customer_id that is the pk of no stored customer
\* fails with "Invalid customer ID" whatever product_ids is, having made no
\* access to the product table; and a createOrder that fails, for whichever
\* reason, changes no table.
C4_InvalidCustomerFirst ==
  [][ last'.op = "createOrder" =>
        /\ last'.args.customer_id \notin CustomerPks(customers) =>
             /\ ~last'.ok
             /\ last'.error = "Invalid customer ID"
             /\ last'.queries = <<"Customer.get">>
        /\ ~last'.ok =>
             /\ store' = store
             /\ last'.error \in {"Invalid customer ID",
                                 "At least one product must be selected",
                                 "One or more product IDs are invalid"} ]_vars

\* an order for an unknown customer and existing products was refused
C4_Witness ==
  /\ last.op = "createOrder"
  /\ last.error = "Invalid customer ID"
  /\ last.args.customer_id \notin CustomerPks(customers)
  /\ last.args.product_ids # <<>>
  /\ Range(last.args.product_ids) \subseteq ProductPks(products)

\* C5: for a stored customer and a non-empty product_ids list, createOrder
\* fails with "One or more product IDs are invalid" exactly when some
\* requested id is the pk of no stored product, repeated ids included.
C5_InvalidIdsExactly ==
  [][ (/\ last'.op = "createOrder"
       /\ last'.args.customer_id \in CustomerPks(customers)
       /\ last'.args.product_ids # <<>>) =>
        ((~last'.ok /\ last'.error = "One or more product IDs are invalid")
           <=> ~(Range(last'.args.product_ids) \subseteq ProductPks(products))) ]_vars

PriceOf(ps, pk) == (CHOOSE p \in Range(ps) : p.id = pk).price

RECURSIVE TotalOf(_, _)
TotalOf(ps, pks) ==
  IF pks = {} THEN 0
  ELSE LET pk == CHOOSE x \in pks : TRUE
       IN  PriceOf(ps, pk) + TotalOf(ps, pks \ {pk})

C7_Restock ==
  [][ last'.op = "updateLowStockProducts" =>
        LET t == IF last'.args = <<>> THEN 10 ELSE last'.args[1]
            low == {i \in 1..Len(products) : products[i].stock < t}
        IN  /\ Len(products') = Len(products)
            /\ \A i \in 1..Len(products) :
                 products'[i] = IF i \in low
                                THEN [products[i] EXCEPT !.stock = @ + 10]
                                ELSE products[i]
            /\ customers' = customers
            /\ orders' = orders
            /\ Len(last'.updated_products) = Cardinality(low)
            /\ Range(last'.updated_products) = {products'[i] : i \in low}
            /\ last'.message = "Updated " \o ToString(Cardinality(low))
                 \o " low-stock products (threshold: " \o ToString(t) \o ")." ]_vars

\* a call restocked one product and left another, at or above the threshold
C7_Witness ==
  /\ last.op = "updateLowStockProducts"
  /\ Len(last.updated_products) = 1
  /\ Len(products) = 2
  /\ \E i \in 1..2 : products[i].stock < 10 /\ products[i] \notin Range(last.updated_products)

\* C8: createProduct fails with "Price must be positive" when price <= 0,
\* whatever the stock; fails with "Stock cannot be negative" when price > 0
\* and stock < 0; writes nothing when it fails; and otherwise adds exactly one
\* product with the given name, price and stock, the stock being 0 when the
\* argument is omitted.
C8_CreateProduct ==
  [][ last'.op = "createProduct" =>
        LET a == last'.args
            stock == IF a.stock = <<>> THEN 0 ELSE a.stock[1]
        IN  IF a.price <= 0
            THEN ~last'.ok /\ last'.error = "Price must be positive" /\ store' = store
            ELSE IF stock < 0
            THEN ~last'.ok /\ last'.error = "Stock cannot be negative" /\ store' = store
            ELSE /\ last'.ok
                 /\ Len(products') = Len(products) + 1
                 /\ SubSeq(products', 1, Len(products)) = products
                 /\ products'[Len(products')].name = a.name
                 /\ products'[Len(products')].price = a.price
                 /\ products'[Len(products')].stock = stock
                 /\ last'.product = products'[Len(products')]
                 /\ customers' = customers
                 /\ orders' = orders ]_vars

\* a product of non-positive price and negative stock was refused for its price
C8_Witness ==
  /\ last.op = "createProduct"
  /\ last.args.price <= 0
  /\ last.args.stock # <<>>
  /\ last.args.stock[1] < 0
  /\ last.error = "Price must be positive"

\* C9: after any sequence of the five mutations from the empty store, no two
\* customers share an email, every product has price > 0 and stock >= 0, and
\* every order references a stored customer and a non-empty set of stored
\* products.
C9_DataModelInvariants ==
  /\ \A i, j \in 1..Len(customers) : customers[i].email = customers[j].email => i = j
  /\ \A i \in 1..Len(products) : products[i].price > 0 /\ products[i].stock >= 0
  /\ \A i \in 1..Len(orders) :
       /\ orders[i].customer \in CustomerPks(customers)
       /\ orders[i].products # {}
       /\ orders[i].products \subseteq ProductPks(products)

\* two customers, two products, one restocked, and an order of both
C9_Witness ==
  /\ Len(customers) = 2
  /\ Len(products) = 2
  /\ \E i \in 1..2 : products[i].stock >= 10
  /\ \E i \in 1..Len(orders) : Cardinality(orders[i].products) = 2

\* C10: when two updateLowStockProducts calls both select a product, having
\* read the same stock s for it, its stock is s + 20 once both have returned.
C10_NoLostRestock ==
  (\A r \in Requests : calls[r].pc = "done") =>
    \A i \in 1..Len(products) :
      \A s \in {p.stock : p \in Range(calls["r1"].fetched)} :
        (/\ \E p \in Range(calls["r1"].fetched) : p.id = i /\ p.stock = s
         /\ \E p \in Range(calls["r2"].fetched) : p.id = i /\ p.stock = s)
        => products[i].stock = s + 2 * RestockAmount

====
